---- MODULE Spec2Model ----
(***************************************************************************)
(* Model of cmd/snaptel/plugin.go (second, current revision of the file,   *)
(* lines 353-719): the snaptel plugin commands load, unload, swap,         *)
(* list-plugins, list-catalog, download, release-links, download-release.  *)
(*                                                                         *)
(* A Go string is a sequence of atoms.  Text that the code only copies is  *)
(* one atom (<<"Plugin loaded">>); text that the code splits, searches or  *)
(* parses is a sequence of one-character atoms (<<"c",":","m",":","1">>).  *)
(* Standard output is one such string, the concatenation of everything     *)
(* printed, newlines included.                                             *)
(***************************************************************************)
EXTENDS Integers, Sequences, FiniteSets, TLC

VARIABLES pc, cmd, args, flags, calls, reply, out, ret,
          catalog, release, goos, goarch, dl, file, fetched

vars == <<pc, cmd, args, flags, calls, reply, out, ret,
          catalog, release, goos, goarch, dl, file, fetched>>

(***************************************************************************)
(* Bounds                                                                  *)
(***************************************************************************)
MaxVersion == 11
MaxBody == 2

(***************************************************************************)
(* Go library functions, computed as the library computes them             *)
(***************************************************************************)
NL == <<"\n">>

Digits == <<"0", "1", "2", "3", "4", "5", "6", "7", "8", "9">>

IsDigit(c) == \E i \in 1..10 : Digits[i] = c

DigitVal(c) == (CHOOSE i \in 1..10 : Digits[i] = c) - 1

RECURSIVE DigitsVal(_)
DigitsVal(s) ==
  IF s = <<>> THEN 0
  ELSE DigitsVal(SubSeq(s, 1, Len(s) - 1)) * 10 + DigitVal(s[Len(s)])

\* strconv.Atoi: optional sign, then at least one decimal digit, nothing else
AtoiBody(s) == IF s # <<>> /\ (s[1] = "+" \/ s[1] = "-") THEN Tail(s) ELSE s

AtoiErr(s) ==
  \/ AtoiBody(s) = <<>>
  \/ \E i \in 1..Len(AtoiBody(s)) : ~IsDigit(AtoiBody(s)[i])

Atoi(s) ==
  IF AtoiErr(s) THEN 0
  ELSE IF s[1] = "-" THEN 0 - DigitsVal(AtoiBody(s))
  ELSE DigitsVal(AtoiBody(s))

RECURSIVE NatDigits(_)
NatDigits(n) ==
  IF n < 10 THEN <<Digits[n + 1]>>
  ELSE NatDigits(n \div 10) \o <<Digits[(n % 10) + 1]>>

\* fmt verb %d
Itoa(n) == IF n < 0 THEN <<"-">> \o NatDigits(0 - n) ELSE NatDigits(n)

\* strings.Contains
Contains(s, sub) ==
  \E i \in 1..(Len(s) + 1) :
    /\ i + Len(sub) - 1 <= Len(s)
    /\ SubSeq(s, i, i + Len(sub) - 1) = sub

\* strings.Split(s, sep) for a one-character separator
RECURSIVE Split(_, _)
Split(s, sep) ==
  IF \E i \in 1..Len(s) : s[i] = sep
  THEN LET i == CHOOSE j \in 1..Len(s) :
                  s[j] = sep /\ \A k \in 1..(j - 1) : s[k] # sep
       IN <<SubSeq(s, 1, i - 1)>> \o Split(SubSeq(s, i + 1, Len(s)), sep)
  ELSE <<s>>

ListSeparator == ":"

\* filepath.SplitList (unix): the empty path gives no segment at all
SplitList(path) == IF path = <<>> THEN <<>> ELSE Split(path, ListSeparator)

\* ctx.Args().Get(i), 0-based: the empty string when out of range
ArgGet(a, i) == IF i + 1 <= Len(a) THEN a[i + 1] ELSE <<>>

(***************************************************************************)
(* Results of a command                                                    *)
(***************************************************************************)
NoRet == [kind |-> "none", msg |-> <<>>]
Nil == [kind |-> "nil", msg |-> <<>>]
Panic == [kind |-> "panic", msg |-> <<>>]
newUsageError(s) == [kind |-> "usageError", msg |-> <<s>>]
Errorf(m) == [kind |-> "error", msg |-> m]

BoolStr(b) == IF b THEN <<"true">> ELSE <<"false">>

\* p.LoadedTime().Format(timeFormat)
FormatTime(t) == <<"time=">> \o Itoa(t)

(***************************************************************************)
(* The plugin-management client (external): requests and replies           *)
(***************************************************************************)
Call(op, paths, t, n, v, running) ==
  [op |-> op, paths |-> paths, type |-> t, name |-> n, version |-> v,
   running |-> running]

NoReply == [err |-> FALSE, msg |-> <<>>, detail |-> <<>>,
            loaded |-> <<>>, unloaded |-> <<>>]

RemoteMsg == <<"remote failure">>

ErrReplies ==
  { [err |-> TRUE, msg |-> RemoteMsg, detail |-> d,
     loaded |-> <<>>, unloaded |-> <<>>] : d \in {<<>>, <<"detail">>} }

LoadedPlugin(signed) ==
  [Name |-> <<"n", "e", "w">>, Version |-> 3, Type |-> <<"p">>,
   Signed |-> signed, LoadedTime |-> 7]

OkReply(loaded, unloaded) ==
  [err |-> FALSE, msg |-> <<>>, detail |-> <<>>,
   loaded |-> loaded, unloaded |-> unloaded]

(***************************************************************************)
(* Inputs                                                                  *)
(***************************************************************************)
PluginPath == <<"p", "l", "g">>

AscValues ==
  { <<>>,
    <<"s", ".", "a", "s", "c">>,
    <<"s", ".", "a", "s", "c", ".", "b">>,
    <<"s", "i", "g">> }

Types == { <<>>, <<"c">> }
Names == { <<>>, <<"m">>, <<"m", "2">> }
VersionStrings ==
  { <<>>, <<"x">>, <<"0">>, <<"-", "1">>, <<"+", "1">>, <<"1", "x">> }
    \cup { Itoa(v) : v \in 1..MaxVersion }
VersionInts == (-1)..MaxVersion

\* the single delimited token  type<delim>name<delim>version
Token(t, n, vs) == t \o <<ListSeparator>> \o n \o <<ListSeparator>> \o vs

UnloadTokens ==
  { Token(t, n, vs) : t \in Types, n \in Names, vs \in VersionStrings }
    \cup { <<>>, <<"c", ":", "m">>, <<"c", ":", "m", ":", "1", ":", "1">> }

NoFlags == [asc |-> <<>>, type |-> <<>>, name |-> <<>>, version |-> 0,
            running |-> FALSE]

NoResp == [status |-> 0, body |-> <<>>]
NoDl == [active |-> FALSE, url |-> <<>>, name |-> <<>>, fileName |-> <<>>,
         resp |-> NoResp, err |-> Nil, n |-> 0]
NoFile == [exists |-> FALSE, bytes |-> <<>>]
NoAssets == [present |-> FALSE, isSeq |-> FALSE, elems |-> <<>>]
NoTag == [isString |-> FALSE, value |-> <<>>]
NoRelease == [fetchErr |-> FALSE, assets |-> NoAssets, tag |-> NoTag]

Init ==
  /\ pc = "idle"
  /\ cmd = "none"
  /\ args = <<>>
  /\ flags = NoFlags
  /\ calls = <<>>
  /\ reply = NoReply
  /\ out = <<>>
  /\ ret = NoRet
  /\ catalog = <<>>
  /\ release = NoRelease
  /\ goos = <<>>
  /\ goarch = <<>>
  /\ dl = NoDl
  /\ file = NoFile
  /\ fetched = <<>>

Start(c, a, f) ==
  /\ pc' = "start"
  /\ cmd' = c
  /\ args' = a
  /\ flags' = f

ClientUnchanged == UNCHANGED <<catalog, release, goos, goarch, dl, file, fetched>>

Finish(r) == pc' = "done" /\ ret' = r

(***************************************************************************)
(* Invocation: the command line of one process run                         *)
(***************************************************************************)
ArgLists(second) ==
  { <<>>, <<PluginPath>> } \cup { <<PluginPath, t>> : t \in second }
    \cup { <<PluginPath, t, <<"z">>>> : t \in {<<"c", ":", "m", ":", "1">>} }

Invoke_load ==
  /\ pc = "idle"
  /\ \E a \in ArgLists({<<"q">>}), asc \in AscValues :
       Start("load", a, [NoFlags EXCEPT !.asc = asc])
  /\ UNCHANGED <<calls, reply, out, ret>>
  /\ ClientUnchanged

UnloadArgLists ==
  { <<>>, <<<<"c">>>>, <<<<"c">>, <<"m">>>> }
    \cup { <<t, n, vs>> : t \in Types, n \in Names, vs \in VersionStrings }
    \cup { <<<<"c">>, <<"m">>, <<"1">>, <<"z">>>> }

Invoke_unload ==
  /\ pc = "idle"
  /\ \E a \in UnloadArgLists : Start("unload", a, NoFlags)
  /\ UNCHANGED <<calls, reply, out, ret>>
  /\ ClientUnchanged

Invoke_swap ==
  /\ pc = "idle"
  /\ \E a \in ArgLists(UnloadTokens), asc \in AscValues,
        t \in Types, n \in Names, v \in VersionInts :
       Start("swap", a, [NoFlags EXCEPT !.asc = asc, !.type = t,
                                        !.name = n, !.version = v])
  /\ UNCHANGED <<calls, reply, out, ret>>
  /\ ClientUnchanged

Invoke_listPlugins ==
  /\ pc = "idle"
  /\ \E r \in BOOLEAN : Start("list-plugins", <<>>, [NoFlags EXCEPT !.running = r])
  /\ UNCHANGED <<calls, reply, out, ret>>
  /\ ClientUnchanged

(***************************************************************************)
(* load                                                                    *)
(***************************************************************************)
AscExt == <<".", "a", "s", "c">>

ascOk(pAsc) == Contains(pAsc, AscExt)

loadPaths(a, pAsc) == <<a[1]>> \o (IF pAsc # <<>> THEN <<pAsc>> ELSE <<>>)

loadSpecErr(a, pAsc) ==
  IF Len(a) # 1 THEN newUsageError("Incorrect usage:")
  ELSE IF pAsc # <<>> /\ ~ascOk(pAsc)
       THEN newUsageError("Must be a .asc file for the -a flag")
       ELSE Nil

loadPlugin_call ==
  /\ pc = "start" /\ cmd = "load"
  /\ IF loadSpecErr(args, flags.asc) # Nil
     THEN /\ Finish(loadSpecErr(args, flags.asc))
          /\ UNCHANGED calls
     ELSE /\ calls' = Append(calls,
                 Call("LoadPlugin", loadPaths(args, flags.asc), <<>>, <<>>, 0, FALSE))
          /\ pc' = "called"
          /\ UNCHANGED ret
  /\ UNCHANGED <<cmd, args, flags, reply, out>>
  /\ ClientUnchanged

loadedBlock(p) ==
  <<"Plugin loaded">> \o NL
    \o <<"Name: ">> \o p.Name \o NL
    \o <<"Version: ">> \o Itoa(p.Version) \o NL
    \o <<"Type: ">> \o p.Type \o NL
    \o <<"Signed: ">> \o BoolStr(p.Signed) \o NL
    \o <<"Loaded Time: ">> \o FormatTime(p.LoadedTime) \o NL \o NL

RECURSIVE loadedBlocks(_)
loadedBlocks(ps) ==
  IF ps = <<>> THEN <<>> ELSE loadedBlock(Head(ps)) \o loadedBlocks(Tail(ps))

loadError(r) ==
  IF r.detail # <<>>
  THEN Errorf(<<"Error loading plugin:">> \o NL \o r.msg \o NL \o r.detail \o NL)
  ELSE Errorf(<<"Error loading plugin:">> \o NL \o r.msg \o NL)

LoadReplies ==
  ErrReplies \cup
  { OkReply(ps, <<>>) : ps \in { <<LoadedPlugin(TRUE)>>,
                                 <<LoadedPlugin(FALSE), LoadedPlugin(TRUE)>> } }

loadPlugin_return ==
  /\ pc = "called" /\ cmd = "load"
  /\ \E r \in LoadReplies :
       /\ reply' = r
       /\ IF r.err
          THEN Finish(loadError(r)) /\ UNCHANGED out
          ELSE Finish(Nil) /\ out' = out \o loadedBlocks(r.loaded)
  /\ UNCHANGED <<cmd, args, flags, calls>>
  /\ ClientUnchanged

(***************************************************************************)
(* unload                                                                  *)
(***************************************************************************)
unloadSpecErr_parseFirst(a) ==
  LET pType == ArgGet(a, 0)
      pName == ArgGet(a, 1)
      vs == ArgGet(a, 2)
  IN IF AtoiErr(vs) THEN newUsageError("Can't convert version string to integer")
     ELSE IF pType = <<>> THEN newUsageError("Must provide plugin type")
     ELSE IF pName = <<>> THEN newUsageError("Must provide plugin name")
     ELSE IF Atoi(vs) < 1 THEN newUsageError("Must provide plugin version")
     ELSE Nil

unloadSpecErr(a) ==
  LET pType == ArgGet(a, 0)
      pName == ArgGet(a, 1)
      vs == ArgGet(a, 2)
  IN IF pType = <<>> THEN newUsageError("Must provide plugin type")
     ELSE IF pName = <<>> THEN newUsageError("Must provide plugin name")
     ELSE IF AtoiErr(vs) THEN newUsageError("Can't convert version string to integer")
     ELSE IF Atoi(vs) < 1 THEN newUsageError("Must provide plugin version")
     ELSE Nil

unloadPlugin_call ==
  /\ pc = "start" /\ cmd = "unload"
  /\ IF unloadSpecErr(args) # Nil
     THEN /\ Finish(unloadSpecErr(args))
          /\ UNCHANGED calls
     ELSE /\ calls' = Append(calls,
                 Call("UnloadPlugin", <<>>, ArgGet(args, 0), ArgGet(args, 1),
                      Atoi(ArgGet(args, 2)), FALSE))
          /\ pc' = "called"
          /\ UNCHANGED ret
  /\ UNCHANGED <<cmd, args, flags, reply, out>>
  /\ ClientUnchanged

unloadedLines(u) ==
  <<"Name: ">> \o u.Name \o NL
    \o <<"Version: ">> \o Itoa(u.Version) \o NL
    \o <<"Type: ">> \o u.Type \o NL

Unloaded(c) == [Name |-> c.name, Version |-> c.version, Type |-> c.type]

UnloadReplies(c) == ErrReplies \cup { OkReply(<<>>, Unloaded(c)) }

unloadPlugin_return ==
  /\ pc = "called" /\ cmd = "unload"
  /\ \E r \in UnloadReplies(calls[Len(calls)]) :
       /\ reply' = r
       /\ IF r.err
          THEN /\ Finish(Errorf(<<"Error unloading plugin:">> \o NL \o r.msg \o NL))
               /\ UNCHANGED out
          ELSE /\ Finish(Nil)
               /\ out' = out \o <<"Plugin unloaded">> \o NL \o unloadedLines(r.unloaded)
  /\ UNCHANGED <<cmd, args, flags, calls>>
  /\ ClientUnchanged

(***************************************************************************)
(* swap                                                                    *)
(***************************************************************************)
swapLoadErr(a, pAsc) ==
  IF Len(a) < 1 \/ Len(a) > 2 THEN newUsageError("Incorrect usage:")
  ELSE IF pAsc # <<>> /\ ~ascOk(pAsc)
       THEN newUsageError("Must be a .asc file for the -a flag")
       ELSE Nil

Target(e, t, n, v) == [err |-> e, type |-> t, name |-> n, version |-> v]

validateTarget_noVersionCheck(t, n, v) ==
  IF t = <<>> THEN Target(newUsageError("Must provide plugin type"), t, n, v)
  ELSE IF n = <<>> THEN Target(newUsageError("Must provide plugin name"), t, n, v)
  ELSE Target(Nil, t, n, v)

\* the checks common to both argument shapes of swap
validateTarget(t, n, v) ==
  IF t = <<>> THEN Target(newUsageError("Must provide plugin type"), t, n, v)
  ELSE IF n = <<>> THEN Target(newUsageError("Must provide plugin name"), t, n, v)
  ELSE IF v < 1 THEN Target(newUsageError("Must provide plugin version"), t, n, v)
  ELSE Target(Nil, t, n, v)

swapUnloadSpec_swappedFields(a, f) ==
  IF Len(a) = 2
  THEN LET pDetails == SplitList(a[2])
       IN IF Len(pDetails) = 3
          THEN IF AtoiErr(pDetails[3])
               THEN Target(newUsageError("Can't convert version string to integer"),
                           pDetails[2], pDetails[1], 0)
               ELSE validateTarget(pDetails[2], pDetails[1], Atoi(pDetails[3]))
          ELSE Target(newUsageError("Missing type, name, or version"), <<>>, <<>>, 0)
  ELSE validateTarget(f.type, f.name, f.version)

swapUnloadSpec(a, f) ==
  IF Len(a) = 2
  THEN LET pDetails == SplitList(a[2])
       IN IF Len(pDetails) = 3
          THEN IF AtoiErr(pDetails[3])
               THEN Target(newUsageError("Can't convert version string to integer"),
                           pDetails[1], pDetails[2], 0)
               ELSE validateTarget(pDetails[1], pDetails[2], Atoi(pDetails[3]))
          ELSE Target(newUsageError("Missing type, name, or version"), <<>>, <<>>, 0)
  ELSE validateTarget(f.type, f.name, f.version)

swapSpecErr(a, f) ==
  IF swapLoadErr(a, f.asc) # Nil THEN swapLoadErr(a, f.asc)
  ELSE swapUnloadSpec(a, f).err

swapPlugins_call ==
  /\ pc = "start" /\ cmd = "swap"
  /\ IF swapSpecErr(args, flags) # Nil
     THEN /\ Finish(swapSpecErr(args, flags))
          /\ UNCHANGED calls
     ELSE /\ LET u == swapUnloadSpec(args, flags)
             IN calls' = Append(calls,
                  Call("SwapPlugin", loadPaths(args, flags.asc),
                       u.type, u.name, u.version, FALSE))
          /\ pc' = "called"
          /\ UNCHANGED ret
  /\ UNCHANGED <<cmd, args, flags, reply, out>>
  /\ ClientUnchanged

swapError_noRemoteMessage(r) == Errorf(<<"Error swapping plugins:">> \o NL \o NL)

swapError(r) == Errorf(<<"Error swapping plugins:">> \o NL \o r.msg \o NL)

swapRender_unloadedFirst(r) ==
  <<"Plugin unloaded">> \o NL
    \o unloadedLines(r.unloaded)
    \o NL \o loadedBlock(r.loaded[1])

swapRender(r) ==
  loadedBlock(r.loaded[1])
    \o NL \o <<"Plugin unloaded">> \o NL
    \o unloadedLines(r.unloaded)

SwapReplies(c) ==
  ErrReplies \cup
  { OkReply(<<LoadedPlugin(s)>>, Unloaded(c)) : s \in BOOLEAN }

swapPlugins_return ==
  /\ pc = "called" /\ cmd = "swap"
  /\ \E r \in SwapReplies(calls[Len(calls)]) :
       /\ reply' = r
       /\ IF r.err
          THEN /\ Finish(swapError(r))
               /\ UNCHANGED out
          ELSE /\ Finish(Nil)
               /\ out' = out \o swapRender(r)
  /\ UNCHANGED <<cmd, args, flags, calls>>
  /\ ClientUnchanged

(***************************************************************************)
(* list-plugins                                                            *)
(***************************************************************************)
RECURSIVE printFields(_)
printFields(fields) ==
  IF fields = <<>> THEN NL
  ELSE Head(fields) \o <<"\t">> \o printFields(Tail(fields))

listPlugins_call ==
  /\ pc = "start" /\ cmd = "list-plugins"
  /\ calls' = Append(calls, Call("GetPlugins", <<>>, <<>>, <<>>, 0, flags.running))
  /\ pc' = "called"
  /\ UNCHANGED <<cmd, args, flags, reply, out, ret>>
  /\ ClientUnchanged

RECURSIVE listRows(_, _)
listRows(ps, running) ==
  IF ps = <<>> THEN <<>>
  ELSE LET p == Head(ps)
       IN (IF running
           THEN printFields(<<p.Name, <<"hits">>, FormatTime(p.LoadedTime),
                              p.Type, <<"port">>>>)
           ELSE printFields(<<p.Name, Itoa(p.Version), p.Type, BoolStr(p.Signed),
                              <<"loaded">>, FormatTime(p.LoadedTime)>>))
          \o listRows(Tail(ps), running)

listRender(ps, running) ==
  IF running
  THEN IF Len(ps) = 0
       THEN <<"No running plugins found. Have you started a task?">> \o NL
       ELSE printFields(<<<<"NAME">>, <<"HIT COUNT">>, <<"LAST HIT">>, <<"TYPE">>,
                          <<"PPROF PORT">>>>) \o listRows(ps, running)
  ELSE IF Len(ps) = 0
       THEN <<"No plugins found. Have you loaded a plugin?">> \o NL
       ELSE printFields(<<<<"NAME">>, <<"VERSION">>, <<"TYPE">>, <<"SIGNED">>,
                          <<"STATUS">>, <<"LOADED TIME">>>>) \o listRows(ps, running)

ListReplies ==
  ErrReplies \cup { OkReply(ps, <<>>) : ps \in { <<>>, <<LoadedPlugin(TRUE)>> } }

listPlugins_return ==
  /\ pc = "called" /\ cmd = "list-plugins"
  /\ \E r \in ListReplies :
       /\ reply' = r
       /\ IF r.err
          THEN /\ Finish(Errorf(<<"Error: ">> \o r.msg \o NL))
               /\ UNCHANGED out
          ELSE /\ Finish(Nil)
               /\ out' = out \o listRender(r.loaded, flags.running)
  /\ UNCHANGED <<cmd, args, flags, calls>>
  /\ ClientUnchanged

(***************************************************************************)
(* list-catalog                                                            *)
(***************************************************************************)
MaxCatalog == 2

Entry(t, fn, n) == [Type |-> t, FullName |-> fn, Name |-> n]

CatalogEntries ==
  { Entry(t, x[1], x[2]) :
      t \in { <<"c">>, <<"p">> },
      x \in { <<<<"s", "m">>, <<"m">>>>, <<<<"x">>, <<"m">>>>, <<<<"s", "m">>, <<"y">>>> } }

RECURSIVE SeqsUpTo(_, _)
SeqsUpTo(S, n) ==
  IF n = 0 THEN { <<>> }
  ELSE SeqsUpTo(S, n - 1)
         \cup { Append(q, e) : q \in { r \in SeqsUpTo(S, n - 1) : Len(r) = n - 1 }, e \in S }

Invoke_listCatalog ==
  /\ pc = "idle"
  /\ \E t \in { <<>>, <<"c">> }, n \in { <<>>, <<"m">> } :
       Start("list-catalog", <<>>, [NoFlags EXCEPT !.type = t, !.name = n])
  /\ UNCHANGED <<calls, reply, out, ret>>
  /\ ClientUnchanged

\* Filter with the three predicates of listCatalog
RECURSIVE Filter(_, _)
Filter(vs, f) ==
  IF vs = <<>> THEN <<>>
  ELSE (IF f[Head(vs)] THEN <<Head(vs)>> ELSE <<>>) \o Filter(Tail(vs), f)

bothPred(pType, pName) ==
  [v \in CatalogEntries |-> Contains(v.Type, pType) /\ Contains(v.FullName, pName)]

typePred(pType) == [v \in CatalogEntries |-> Contains(v.Type, pType)]

namePred(pName) ==
  [v \in CatalogEntries |-> Contains(v.FullName, pName) \/ Contains(v.Name, pName)]

listCatalogFilter(pluginNames, pType, pName) ==
  IF pType # <<>> /\ pName # <<>>
  THEN Filter(pluginNames, bothPred(pType, pName))
  ELSE LET byType == IF pType # <<>>
                     THEN Filter(pluginNames, typePred(pType))
                     ELSE pluginNames
       IN IF pName # <<>>
          THEN Filter(byType, namePred(pName))
          ELSE byType

\* json.MarshalIndent of the entries (the fields the filter reads)
RECURSIVE MarshalEntries(_)
MarshalEntries(vs) ==
  IF vs = <<>> THEN <<>>
  ELSE <<"{name:">> \o Head(vs).Name \o <<",full_name:">> \o Head(vs).FullName
         \o <<",type:">> \o Head(vs).Type \o <<"}">> \o MarshalEntries(Tail(vs))

MarshalIndent(vs) == <<"[">> \o MarshalEntries(vs) \o <<"]">>

CatalogURL == <<"http://staging.webapi.snap-telemetry.io/plugin">>

listCatalog ==
  /\ pc = "start" /\ cmd = "list-catalog"
  /\ fetched' = Append(fetched, CatalogURL)
  /\ \/ /\ Finish(Errorf(<<"get failed">>))
        /\ UNCHANGED <<catalog, out>>
     \/ /\ Finish(Errorf(<<"unmarshal failed">>))
        /\ UNCHANGED <<catalog, out>>
     \/ \E c \in SeqsUpTo(CatalogEntries, MaxCatalog) :
          /\ catalog' = c
          /\ out' = out \o MarshalIndent(listCatalogFilter(c, flags.type, flags.name))
          /\ Finish(Nil)
  /\ UNCHANGED <<cmd, args, flags, calls, reply, release, goos, goarch, dl, file>>

(***************************************************************************)
(* download                                                                *)
(***************************************************************************)
URLs == { <<"h", "/", "f">>, <<"h", "/">> }

Files == { NoFile, [exists |-> TRUE, bytes |-> <<"o">>] }

Invoke_download ==
  /\ pc = "idle"
  /\ \E a \in { <<>>, <<<<"h", "/", "f">>, <<"z">>>> } \cup { <<u>> : u \in URLs } :
       Start("download", a, NoFlags)
  /\ \E f \in Files : file' = f
  /\ UNCHANGED <<calls, reply, out, ret, catalog, release, goos, goarch, dl, fetched>>

downloadPlugin ==
  /\ pc = "start" /\ cmd = "download"
  /\ IF Len(args) # 1
     THEN Finish(newUsageError("Incorrect usage:")) /\ UNCHANGED dl
     ELSE /\ dl' = [NoDl EXCEPT !.active = TRUE, !.url = ArgGet(args, 0), !.name = <<>>]
          /\ pc' = "dl_create"
          /\ UNCHANGED ret
  /\ UNCHANGED <<cmd, args, flags, calls, reply, out, catalog, release, goos,
                 goarch, file, fetched>>

\* the callers' `download(url, name); return nil`: the error is dropped
downloadReturn(e) == Nil

downloadFileName(url, name) ==
  LET tokens == Split(url, "/")
  IN IF name = <<>> THEN tokens[Len(tokens)] ELSE name

DlUnchanged == UNCHANGED <<cmd, args, flags, calls, reply, catalog, release, goos, goarch>>

download_create_keepsContent ==
  /\ pc = "dl_create"
  /\ LET fileName == downloadFileName(dl.url, dl.name)
     IN /\ out' = out \o <<"Downloading", " ">> \o dl.url \o <<" ", "to", " ">>
                      \o fileName \o NL
        /\ \/ /\ fileName # <<>>
              /\ file' = [file EXCEPT !.exists = TRUE]
              /\ dl' = [dl EXCEPT !.fileName = fileName]
              /\ pc' = "dl_fetch"
              /\ UNCHANGED ret
           \/ LET e == Errorf(<<"Error while creating ">> \o fileName \o <<": create failed">>)
              IN /\ dl' = [dl EXCEPT !.fileName = fileName, !.err = e]
                 /\ Finish(downloadReturn(e))
                 /\ UNCHANGED file
  /\ UNCHANGED fetched
  /\ DlUnchanged

download_create ==
  /\ pc = "dl_create"
  /\ LET fileName == downloadFileName(dl.url, dl.name)
     IN /\ out' = out \o <<"Downloading", " ">> \o dl.url \o <<" ", "to", " ">>
                      \o fileName \o NL
        /\ \/ /\ fileName # <<>>
              /\ file' = [exists |-> TRUE, bytes |-> <<>>]
              /\ dl' = [dl EXCEPT !.fileName = fileName]
              /\ pc' = "dl_fetch"
              /\ UNCHANGED ret
           \/ LET e == Errorf(<<"Error while creating ">> \o fileName \o <<": create failed">>)
              IN /\ dl' = [dl EXCEPT !.fileName = fileName, !.err = e]
                 /\ Finish(downloadReturn(e))
                 /\ UNCHANGED file
  /\ UNCHANGED fetched
  /\ DlUnchanged

Bodies == SeqsUpTo({"b"}, MaxBody)

Responses == { [status |-> st, body |-> b] : st \in {200, 404}, b \in Bodies }

download_fetch ==
  /\ pc = "dl_fetch"
  /\ fetched' = Append(fetched, dl.url)
  /\ \/ LET e == Errorf(<<"Error while downloading ">> \o dl.url \o <<": get failed">>)
        IN /\ dl' = [dl EXCEPT !.err = e]
           /\ Finish(downloadReturn(e))
     \/ \E r \in Responses :
          /\ dl' = [dl EXCEPT !.resp = r]
          /\ pc' = "dl_copy"
          /\ UNCHANGED ret
  /\ UNCHANGED <<out, file>>
  /\ DlUnchanged

download_copy ==
  /\ pc = "dl_copy"
  /\ \E k \in 0..Len(dl.resp.body), failed \in BOOLEAN :
       /\ k < Len(dl.resp.body) => failed
       /\ file' = [file EXCEPT !.bytes = SubSeq(dl.resp.body, 1, k)]
       /\ IF failed
          THEN LET e == Errorf(<<"Error while downloading ">> \o dl.url \o <<": copy failed">>)
               IN /\ dl' = [dl EXCEPT !.err = e, !.n = k]
                  /\ Finish(downloadReturn(e))
                  /\ UNCHANGED out
          ELSE /\ dl' = [dl EXCEPT !.n = k]
               /\ out' = out \o Itoa(k) \o <<" ", "bytes downloaded.">> \o NL
               /\ Finish(downloadReturn(Nil))
  /\ UNCHANGED fetched
  /\ DlUnchanged

(***************************************************************************)
(* release-links, download-release                                         *)
(***************************************************************************)
MaxAssets == 2

Repo == <<"r">>

releaseLink(url) ==
  <<"https:", "/", "/", "api.github.com", "/", "repos", "/", "intelsdi-x", "/">>
    \o url \o <<"/", "releases", "/", "latest">>

Asset(obj, has, u) == [isObject |-> obj, hasURL |-> has, url |-> u]

AssetElems ==
  { Asset(FALSE, FALSE, <<>>), Asset(TRUE, FALSE, <<>>),
    Asset(TRUE, TRUE, <<"u1">>), Asset(TRUE, TRUE, <<"u2">>) }

AssetsValues ==
  { NoAssets, [present |-> TRUE, isSeq |-> FALSE, elems |-> <<>>] }
    \cup { [present |-> TRUE, isSeq |-> TRUE, elems |-> es] :
             es \in SeqsUpTo(AssetElems, MaxAssets) }

TagValues ==
  { NoTag } \cup { [isString |-> TRUE, value |-> v] :
                     v \in { <<"2", ".", "4", ".", "1", "-", "b">>, <<"3">>, <<>> } }

Invoke_releaseLinks ==
  /\ pc = "idle"
  /\ \E a \in { <<>>, <<Repo>>, <<Repo, Repo>> } : Start("release-links", a, NoFlags)
  /\ UNCHANGED <<calls, reply, out, ret>>
  /\ ClientUnchanged

\* the lines printed by the loop of listReleaseLinks up to the first
\* element whose type assertion fails
RECURSIVE printAssets(_)
printAssets(es) ==
  IF es = <<>> \/ ~Head(es).isObject THEN <<>>
  ELSE (IF Head(es).hasURL THEN Head(es).url ELSE <<"<nil>">>) \o NL
         \o printAssets(Tail(es))

assetsPanic(a) ==
  \/ ~a.present
  \/ ~a.isSeq
  \/ \E i \in 1..Len(a.elems) : ~a.elems[i].isObject

listReleaseLinks ==
  /\ pc = "start" /\ cmd = "release-links"
  /\ IF Len(args) # 1
     THEN /\ Finish(newUsageError("Incorrect usage:"))
          /\ UNCHANGED <<release, out, fetched>>
     ELSE /\ fetched' = Append(fetched, releaseLink(ArgGet(args, 0)))
          /\ \/ /\ release' = [NoRelease EXCEPT !.fetchErr = TRUE]
                /\ Finish(Errorf(<<"get failed">>))
                /\ UNCHANGED out
             \/ \E a \in AssetsValues :
                  /\ release' = [NoRelease EXCEPT !.assets = a]
                  /\ out' = out \o (IF a.present /\ a.isSeq
                                    THEN printAssets(a.elems) ELSE <<>>)
                  /\ Finish(IF assetsPanic(a) THEN Panic ELSE Nil)
  /\ UNCHANGED <<cmd, args, flags, calls, reply, catalog, goos, goarch, dl, file>>

OSes == { <<"linux">>, <<"darwin">> }
Arches == { <<"amd64">>, <<"386">>, <<"arm">>, <<"s390x">> }

Invoke_downloadRelease ==
  /\ pc = "idle"
  /\ \E a \in { <<>>, <<Repo>> } : Start("download-release", a, NoFlags)
  /\ \E o \in OSes, ar \in Arches : goos' = o /\ goarch' = ar
  /\ \E f \in Files : file' = f
  /\ UNCHANGED <<calls, reply, out, ret, catalog, release, dl, fetched>>

archSupported_any(a) == TRUE

archSupported(a) == a = <<"amd64">> \/ a = <<"386">>

archName(a) ==
  IF a = <<"amd64">> THEN <<"x86_64">>
  ELSE IF a = <<"386">> THEN <<"x86_32">>
  ELSE <<>>

majorTag(tagName) == Split(tagName, ".")[1]

downloadLink(pluginName, tag, os, arch) ==
  <<"https:", "/", "/", "github.com", "/", "intelsdi-x", "/">> \o pluginName
    \o <<"/", "releases", "/", "download", "/">> \o tag
    \o <<"/", "snap-plugin-publisher-file", "_">> \o os \o <<"_">> \o arch

downloadxPlugin ==
  /\ pc = "start" /\ cmd = "download-release"
  /\ IF Len(args) # 1
     THEN /\ Finish(newUsageError("Incorrect usage:"))
          /\ UNCHANGED <<release, dl, fetched>>
     ELSE /\ fetched' = Append(fetched, releaseLink(ArgGet(args, 0)))
          /\ \/ /\ release' = [NoRelease EXCEPT !.fetchErr = TRUE]
                /\ Finish(Errorf(<<"get failed">>))
                /\ UNCHANGED dl
             \/ \E t \in TagValues :
                  /\ release' = [NoRelease EXCEPT !.tag = t]
                  /\ IF ~t.isString
                     THEN Finish(Panic) /\ UNCHANGED dl
                     ELSE IF ~archSupported(goarch)
                     THEN /\ Finish(Errorf(<<"This arch is not yet supported">>))
                          /\ UNCHANGED dl
                     ELSE /\ dl' = [NoDl EXCEPT
                                 !.active = TRUE,
                                 !.url = downloadLink(ArgGet(args, 0), majorTag(t.value),
                                                      goos, archName(goarch)),
                                 !.name = ArgGet(args, 0)]
                          /\ pc' = "dl_create"
                          /\ UNCHANGED ret
  /\ UNCHANGED <<cmd, args, flags, calls, reply, out, catalog, goos, goarch, file>>

Next ==
  \/ Invoke_load \/ Invoke_unload \/ Invoke_swap \/ Invoke_listPlugins
  \/ loadPlugin_call \/ loadPlugin_return
  \/ unloadPlugin_call \/ unloadPlugin_return
  \/ swapPlugins_call \/ swapPlugins_return
  \/ listPlugins_call \/ listPlugins_return
  \/ Invoke_listCatalog \/ listCatalog
  \/ Invoke_download \/ downloadPlugin
  \/ download_create \/ download_fetch \/ download_copy
  \/ Invoke_releaseLinks \/ listReleaseLinks
  \/ Invoke_downloadRelease \/ downloadxPlugin

Spec == Init /\ [][Next]_vars

(***************************************************************************)
(* Vocabulary of the properties                                            *)
(***************************************************************************)
HasSuffix(s, suf) ==
  Len(suf) <= Len(s) /\ SubSeq(s, Len(s) - Len(suf) + 1, Len(s)) = suf

\* the lines of a text: the segments between newlines, without the empty
\* segment that follows a final newline
Lines(text) ==
  LET segs == Split(text, "\n")
  IN IF segs[Len(segs)] = <<>> THEN SubSeq(segs, 1, Len(segs) - 1) ELSE segs

Has(text, atom) == \E i \in 1..Len(text) : text[i] = atom

NoResultBlock == ~Has(out, "Plugin loaded") /\ ~Has(out, "Plugin unloaded")

Ran(c) == cmd = c /\ pc \notin {"idle", "start"}

MissingType == newUsageError("Must provide plugin type")
MissingName == newUsageError("Must provide plugin name")
MissingVersion == newUsageError("Must provide plugin version")
InvalidVersion == newUsageError("Can't convert version string to integer")
BadToken == newUsageError("Missing type, name, or version")

\* C1: swap and unload call the remote client only after local validation:
\* every SwapPlugin / UnloadPlugin request carries a non-empty type, a
\* non-empty name and a version >= 1, and a run that ends in a usage error
\* has made no remote call and printed nothing.
C1_ValidatedBeforeCall ==
  /\ \A i \in 1..Len(calls) :
       calls[i].op \in {"SwapPlugin", "UnloadPlugin"} =>
         /\ calls[i].type # <<>>
         /\ calls[i].name # <<>>
         /\ calls[i].version >= 1
  /\ (cmd \in {"swap", "unload"} /\ ret.kind = "usageError") =>
       /\ calls = <<>>
       /\ reply = NoReply
       /\ out = <<>>

C1_Witness ==
  /\ cmd = "swap" /\ pc = "called"
  /\ Len(args) = 1
  /\ calls = <<Call("SwapPlugin", <<PluginPath>>, <<"c">>, <<"m">>, 1, FALSE)>>

ValidTypes == Types \ {<<>>}
ValidNames == Names \ {<<>>}

AscAccepted(pAsc) == pAsc = <<>> \/ HasSuffix(pAsc, AscExt)

\* C2: for every valid (type, name, version) swap accepts the delimited
\* token "type:name:version" as second positional argument and the three
\* discrete flags with one positional argument, and SwapPlugin is called
\* with that same triple in both forms.
C2_BothFormsSameTriple ==
  \A t \in ValidTypes, n \in ValidNames, v \in 1..MaxVersion :
    ( /\ Ran("swap")
      /\ AscAccepted(flags.asc)
      /\ \/ Len(args) = 2 /\ args[2] = Token(t, n, Itoa(v))
         \/ Len(args) = 1 /\ flags.type = t /\ flags.name = n /\ flags.version = v )
    => /\ Len(calls) = 1
       /\ calls[1].op = "SwapPlugin"
       /\ calls[1].type = t
       /\ calls[1].name = n
       /\ calls[1].version = v

C2_Witness ==
  /\ Ran("swap") /\ Len(args) = 2
  /\ args[2] = <<"c", ":", "m", "2", ":", "1", "0">>
  /\ flags.type = <<>>
  /\ Len(calls) = 1 /\ calls[1].name = <<"m", "2">> /\ calls[1].version = 10

\* C3: with both filters given, list-catalog prints the entries obtained by
\* filtering by type alone and then filtering that result by name alone
\* (name matching FullName or Name).
C3_FilterIndependent ==
  (Ran("list-catalog") /\ ret = Nil /\ flags.type # <<>> /\ flags.name # <<>>)
    => out = MarshalIndent(
               listCatalogFilter(listCatalogFilter(catalog, flags.type, <<>>),
                                 <<>>, flags.name))

Malformed(a) ==
  \/ ~a.present
  \/ ~a.isSeq
  \/ \E i \in 1..Len(a.elems) : ~a.elems[i].isObject \/ ~a.elems[i].hasURL

\* C4: on a malformed latest-release document release-links returns an
\* error (it does not abort) and has printed no asset URL.
C4_MalformedReleaseFails ==
  (Ran("release-links") /\ Len(args) = 1 /\ ~release.fetchErr
     /\ Malformed(release.assets))
    => /\ ret.kind = "error"
       /\ \A i \in 1..Len(out) : out[i] \notin {"u1", "u2"}

DownloadFailed == dl.err # Nil \/ dl.resp.status >= 400

\* C5: when the download step of download or download-release fails (file
\* creation, fetch error or failure status, copy), the command returns an
\* error, never success.
C5_DownloadFailureReturned ==
  (cmd \in {"download", "download-release"} /\ pc = "done" /\ dl.active
     /\ DownloadFailed)
    => ret.kind = "error"

UnsupportedArch == Errorf(<<"This arch is not yet supported">>)

ArchSuffixOk ==
  /\ (goarch = <<"amd64">> /\ dl.active) =>
       HasSuffix(dl.url, <<"_">> \o goos \o <<"_", "x86_64">>)
  /\ (goarch = <<"386">> /\ dl.active) =>
       HasSuffix(dl.url, <<"_">> \o goos \o <<"_", "x86_32">>)

OtherArch == goarch \notin { <<"amd64">>, <<"386">> }

\* C6 (as stated): for every architecture other than amd64 and 386
\* download-release fails with UnsupportedArchitecture, no asset URL is
\* built and the download step never runs; for amd64 / 386 the URL ends in
\* _<os>_x86_64 / _<os>_x86_32.
C6_Original ==
  (Ran("download-release") /\ Len(args) = 1)
    => /\ OtherArch => (ret = UnsupportedArch /\ dl = NoDl /\ Len(fetched) = 1)
       /\ ArchSuffixOk

\* C6 (amended): for every other architecture download-release never
\* succeeds, builds no asset URL and never runs the download step (its only
\* request is the release descriptor); the failure is UnsupportedArchitecture
\* when the descriptor was fetched and has a string tag_name, and the fetch
\* error when the fetch failed; for amd64 / 386 the URL ends in
\* _<os>_x86_64 / _<os>_x86_32.
C6_UnsupportedArch ==
  (Ran("download-release") /\ Len(args) = 1)
    => /\ OtherArch =>
            /\ pc = "done"
            /\ ret.kind \notin {"nil", "none"}
            /\ dl = NoDl
            /\ fetched = <<releaseLink(args[1])>>
            /\ (~release.fetchErr /\ release.tag.isString) => ret = UnsupportedArch
            /\ release.fetchErr => ret = Errorf(<<"get failed">>)
       /\ ArchSuffixOk

C6_Witness ==
  /\ Ran("download-release") /\ goarch = <<"arm">>
  /\ release.tag.isString /\ ret = UnsupportedArch /\ dl = NoDl

ExpectedLoaded(p) ==
  << <<"Plugin loaded">>,
     <<"Name: ">> \o p.Name,
     <<"Version: ">> \o Itoa(p.Version),
     <<"Type: ">> \o p.Type,
     <<"Signed: ">> \o BoolStr(p.Signed),
     <<"Loaded Time: ">> \o FormatTime(p.LoadedTime) >>

ExpectedUnloaded(u) ==
  << <<"Plugin unloaded">>,
     <<"Name: ">> \o u.Name,
     <<"Version: ">> \o Itoa(u.Version),
     <<"Type: ">> \o u.Type >>

SwapSucceeded == cmd = "swap" /\ pc = "done" /\ ret = Nil

\* C7 (as stated): a successful swap prints the loaded block, one empty
\* line, then the unloaded block.
C7_Original ==
  SwapSucceeded =>
    Lines(out) = ExpectedLoaded(reply.loaded[1]) \o << <<>> >>
                   \o ExpectedUnloaded(reply.unloaded)

\* C7 (amended): a successful swap prints the loaded block, two empty lines,
\* then the unloaded block, in that order.
C7_SwapOutputOrder ==
  SwapSucceeded =>
    Lines(out) = ExpectedLoaded(reply.loaded[1]) \o << <<>>, <<>> >>
                   \o ExpectedUnloaded(reply.unloaded)

C7_Witness ==
  /\ SwapSucceeded
  /\ Len(Lines(out)) = 12
  /\ Lines(out)[9] = <<"Plugin unloaded">>

\* C8: swap fails with a usage error and no remote call when zero or more
\* than two positional tokens are given or when a non-empty signature value
\* does not end in ".asc"; otherwise the paths sent are [plugin path] or
\* [plugin path, signature path].
C8_LoadSpec ==
  Ran("swap") =>
    IF Len(args) < 1 \/ Len(args) > 2 \/ ~AscAccepted(flags.asc)
    THEN ret.kind = "usageError" /\ calls = <<>>
    ELSE \A i \in 1..Len(calls) :
           calls[i].paths = <<args[1]>>
                              \o (IF flags.asc = <<>> THEN <<>> ELSE <<flags.asc>>)

NoDelim(x) == \A i \in 1..Len(x) : x[i] # ListSeparator

UnloadDefects(a) ==
  { e \in {MissingType, MissingName, MissingVersion, InvalidVersion} :
      \/ e = MissingType /\ ArgGet(a, 0) = <<>>
      \/ e = MissingName /\ ArgGet(a, 1) = <<>>
      \/ e = MissingVersion /\ Len(a) < 3
      \/ e = InvalidVersion /\ Len(a) >= 3 /\ AtoiErr(a[3])
      \/ e = MissingVersion /\ Len(a) >= 3 /\ ~AtoiErr(a[3]) /\ Atoi(a[3]) < 1 }

TokenDefects(d) ==
  { e \in {MissingType, MissingName, MissingVersion, InvalidVersion} :
      \/ e = MissingType /\ d[1] = <<>>
      \/ e = MissingName /\ d[2] = <<>>
      \/ e = InvalidVersion /\ AtoiErr(d[3])
      \/ e = MissingVersion /\ ~AtoiErr(d[3]) /\ Atoi(d[3]) < 1 }

FlagDefects(f) ==
  { e \in {MissingType, MissingName, MissingVersion} :
      \/ e = MissingType /\ f.type = <<>>
      \/ e = MissingName /\ f.name = <<>>
      \/ e = MissingVersion /\ f.version < 1 }

SwapTargetReached == Ran("swap") /\ Len(args) \in {1, 2} /\ AscAccepted(flags.asc)

\* C9 (as stated): in unload and in swap an invalid target fails with the
\* error kind of its defect (unparsable version: InvalidVersion; version < 1
\* or not supplied: MissingVersion; empty type: MissingType; empty name:
\* MissingName), a token without exactly 3 segments is a usage error, and
\* the same defective triple fails alike in unload and in swap.
C9_Original ==
  /\ (Ran("unload") /\ UnloadDefects(args) # {}) => ret \in UnloadDefects(args)
  /\ (SwapTargetReached /\ Len(args) = 2) =>
       IF Len(SplitList(args[2])) # 3 THEN ret.kind = "usageError"
       ELSE TokenDefects(SplitList(args[2])) # {}
              => ret \in TokenDefects(SplitList(args[2]))
  /\ (SwapTargetReached /\ Len(args) = 1 /\ FlagDefects(flags) # {})
       => ret \in FlagDefects(flags)
  /\ (Ran("unload") /\ Len(args) = 3 /\ ret.kind = "usageError"
        /\ \A i \in 1..3 : NoDelim(args[i]))
       => ret = swapSpecErr(<<PluginPath, Token(args[1], args[2], args[3])>>, NoFlags)

\* C9 (amended): an invalid target fails with a usage error and no remote
\* call, the kind being that of the first failing check.  unload checks
\* type, name, integer parse, version >= 1 in that order, so a version that
\* is not supplied gives InvalidVersion; swap's token form checks the
\* segment count, the integer parse, then type, name, version >= 1; swap's
\* flag form checks type, name, version >= 1.  A triple with exactly one
\* defect fails alike in unload and in swap's token form.
C9_ErrorKinds ==
  /\ (cmd \in {"unload", "swap"} /\ ret.kind = "usageError") => calls = <<>>
  /\ Ran("unload") =>
       LET t == ArgGet(args, 0)
           n == ArgGet(args, 1)
           vs == ArgGet(args, 2)
       IN /\ t = <<>> => ret = MissingType
          /\ (t # <<>> /\ n = <<>>) => ret = MissingName
          /\ (t # <<>> /\ n # <<>> /\ AtoiErr(vs)) => ret = InvalidVersion
          /\ (t # <<>> /\ n # <<>> /\ ~AtoiErr(vs) /\ Atoi(vs) < 1)
               => ret = MissingVersion
  /\ (SwapTargetReached /\ Len(args) = 2) =>
       LET d == SplitList(args[2])
       IN IF Len(d) # 3 THEN ret = BadToken
          ELSE /\ AtoiErr(d[3]) => ret = InvalidVersion
               /\ (~AtoiErr(d[3]) /\ d[1] = <<>>) => ret = MissingType
               /\ (~AtoiErr(d[3]) /\ d[1] # <<>> /\ d[2] = <<>>) => ret = MissingName
               /\ (~AtoiErr(d[3]) /\ d[1] # <<>> /\ d[2] # <<>> /\ Atoi(d[3]) < 1)
                    => ret = MissingVersion
  /\ (SwapTargetReached /\ Len(args) = 1) =>
       /\ flags.type = <<>> => ret = MissingType
       /\ (flags.type # <<>> /\ flags.name = <<>>) => ret = MissingName
       /\ (flags.type # <<>> /\ flags.name # <<>> /\ flags.version < 1)
            => ret = MissingVersion
  /\ (Ran("unload") /\ Len(args) = 3 /\ Cardinality(UnloadDefects(args)) = 1
        /\ \A i \in 1..3 : NoDelim(args[i]))
       => ret = swapSpecErr(<<PluginPath, Token(args[1], args[2], args[3])>>, NoFlags)

C9_Witness ==
  /\ Ran("unload") /\ args = << <<>>, <<"m">>, <<"x">> >>
  /\ ret = MissingType /\ calls = <<>>

ClientCmds == {"load", "unload", "swap", "list-plugins"}

\* C10: an invocation makes at most one call to the plugin-management
\* client; when the call returns an error the command has ended with an
\* error carrying the remote message, made no further call and printed no
\* 'Plugin loaded' / 'Plugin unloaded' line.
C10_OneCallNoRepair ==
  /\ Len(calls) <= 1
  /\ (cmd \in ClientCmds /\ reply.err) =>
       /\ pc = "done"
       /\ ret.kind = "error"
       /\ Contains(ret.msg, reply.msg)
       /\ Len(calls) = 1
       /\ NoResultBlock

C10_Witness ==
  /\ cmd = "swap" /\ reply.err /\ pc = "done"
  /\ Len(calls) = 1 /\ calls[1].op = "SwapPlugin"

FetchIssued == dl.active /\ \E i \in 1..Len(fetched) : fetched[i] = dl.url

CountReported == Has(out, "bytes downloaded.")

\* C11: download creates and truncates the target file before it issues the
\* fetch and never removes or restores it: after a failed fetch or a failed
\* copy the file exists and holds exactly the bytes copied so far (none when
\* the fetch itself failed), nothing of its previous content; the byte count
\* is printed only when the whole stream was copied.
C11_PartialFileLeft ==
  /\ pc = "dl_fetch" =>
       /\ file = [exists |-> TRUE, bytes |-> <<>>]
       /\ ~FetchIssued
  /\ FetchIssued =>
       /\ file.exists
       /\ file.bytes = SubSeq(dl.resp.body, 1, dl.n)
       /\ \A i \in 1..Len(file.bytes) : file.bytes[i] # "o"
  /\ (FetchIssued /\ pc = "done" /\ dl.err # Nil) =>
       /\ dl.resp = NoResp => file.bytes = <<>>
       /\ ~CountReported
  /\ CountReported =>
       /\ dl.err = Nil
       /\ dl.n = Len(dl.resp.body)
       /\ file.bytes = dl.resp.body

C11_Witness ==
  /\ cmd = "download" /\ pc = "done" /\ FetchIssued
  /\ dl.err # Nil
  /\ Len(dl.resp.body) = 2 /\ dl.n = 1
  /\ file = [exists |-> TRUE, bytes |-> <<"b">>]
  /\ ~CountReported

====
